---- MODULE Spec2Model ----
(***************************************************************************)
(* Request-context propagation of express-sensible: the AsyncLocalStorage  *)
(* binding (getContext / runInContext / asyncContext), the RequestContext  *)
(* data model with its metadata Map, the global accessors $app, $req,      *)
(* $res, $config, $logger and the request-id generator.                    *)
(*                                                                         *)
(* One thread runs one task at a time.  A task is a synchronous run of     *)
(* code started by the event loop; code inside it may call runInContext    *)
(* (nesting), the accessors, the metadata operations, and may schedule     *)
(* continuations that the event loop runs later as tasks of their own.     *)
(***************************************************************************)
EXTENDS Integers, Sequences, FiniteSets, Bags, TLC

\* ------------------------------------------------------------------ bounds
MaxContexts == 2      \* RequestContext objects constructed in one behaviour
MaxPending  == 2      \* continuations waiting in the event loop
MaxDepth    == 2      \* runInContext calls active on the call stack
MaxTime     == 1      \* last millisecond the clock reaches
MaxObjects  == 1      \* snapshot objects returned by getAllMetadata
MaxSnapContexts == 1  \* contexts in the behaviours that take snapshots
MaxMetaPending == 1   \* continuations waiting in the behaviours that use metadata
MaxSink     == 2      \* console calls made in the behaviours that log
MaxSinkContexts == 1  \* contexts in the behaviours that watch the sink
MaxLogged   == 1      \* console calls made in the behaviours that read records
MaxFrameContexts == 1 \* contexts in the behaviours that use every operation
MaxNestRequests == 1  \* requests in the behaviours whose code constructs contexts

VARIABLES
    now,        \* Date.now(), in milliseconds
    config,     \* the AppConfig captured by the asyncContext(config) closure
    requests,   \* the inbound Request objects, by handle
    contexts,   \* the RequestContext objects (their data record), by reference
    maps,       \* heap of Map objects: each a sequence of <<key, value>> entries
    objects,    \* heap of plain objects returned by getAllMetadata
    running,    \* TRUE while a task runs on the thread
    store,      \* kResourceStore of the executing async resource
    saved,      \* the oldStore of every active asyncLocalStorage.run call
    pending,    \* bag of the async resources created and not yet run
    last,       \* what the step just taken called and what it got back
    chain,      \* history: contexts of the runInContext calls enclosing the step
    task,       \* history: how the running task was started
    idgen,      \* history: per context, the clock and random draw of its id
    wrote,      \* history: per context, key -> the value last set through it
    error,      \* the exception being thrown up the call stack, or NoError
    sink,       \* the console: the emissions made, in order
    elapsed     \* history: per context, the elapsedTime last read, or NoRead

vars == << now, config, requests, contexts, maps, objects, running, store,
           saved, pending, last, chain, task, idgen, wrote, error, sink,
           elapsed >>

\* ---------------------------------------------------------------- helpers
Min(a, b) == IF a < b THEN a ELSE b

Front(s) == SubSeq(s, 1, Len(s) - 1)

Last(s) == s[Len(s)]

\* getContext(): RequestContext | undefined -- the reference 0 is undefined
NoContext == 0

\* no exception is in flight
NoError == "none"

\* ------------------------------------------------------------ input values
Apps == {"app1", "app2"}

\* the AppConfig object the application passes to asyncContext(config)
AppConfig == "config"

\* req.headers['x-request-id']: absent, the empty string, or a value
HeaderAbsent == [present |-> FALSE, value |-> << >>]

HeaderEmpty == [present |-> TRUE, value |-> << >>]

HeaderAbc123 == [present |-> TRUE, value |-> <<"a", "b", "c", "1", "2", "3">>]

Headers == {HeaderAbsent, HeaderEmpty, HeaderAbc123}

\* Math.random(): the digits of the fraction as toString(36) prints them;
\* the empty sequence is the number 0
RandomZero == << >>

RandomHalf == <<"i">>

RandomLongJ == <<"a", "b", "c", "d", "e", "f", "g", "h", "i", "j">>

RandomLongK == <<"a", "b", "c", "d", "e", "f", "g", "h", "i", "k">>

RandomOther == <<"z", "9", "c", "d", "e", "f", "g", "h", "i", "k">>

Randoms == {RandomZero, RandomHalf, RandomLongJ, RandomLongK, RandomOther}

Alphanumeric == {"0", "1", "2", "3", "4", "5", "6", "7", "8", "9",
                 "a", "b", "c", "d", "e", "f", "g", "h", "i", "j", "k", "l", "m",
                 "n", "o", "p", "q", "r", "s", "t", "u", "v", "w", "x", "y", "z"}

\* --------------------------------------------------------- request identity
DecimalDigit(d) == <<"0", "1", "2", "3", "4", "5", "6", "7", "8", "9">>[d + 1]

RECURSIVE NumberToString(_)
\* `${Date.now()}`: the decimal digits of a non-negative integer
NumberToString(n) ==
    IF n < 10 THEN << DecimalDigit(n) >>
    ELSE NumberToString(n \div 10) \o << DecimalDigit(n % 10) >>

\* Number.prototype.toString(36) of a number in [0, 1)
toString36(r) == IF r = << >> THEN <<"0">> ELSE <<"0", ".">> \o r

\* String.prototype.substring(from, to), 0-based, end exclusive
substring(s, from, to) == SubSeq(s, from + 1, Min(to, Len(s)))

SuffixFrom == 2

SuffixTo == 11

randomSuffix(r) == substring(toString36(r), SuffixFrom, SuffixTo)

generateRequestId_NoSuffix(t, r) ==
    <<"r", "e", "q", "_">> \o NumberToString(t) \o <<"_">>

\* `req_${Date.now()}_${Math.random().toString(36).substring(2, 11)}`
generateRequestId(t, r) ==
    <<"r", "e", "q", "_">> \o NumberToString(t) \o <<"_">> \o randomSuffix(r)

Truthy_Nullish(h) == h.present

\* a header value as the operand of ||: undefined and "" are falsy
Truthy(h) == h.present /\ h.value # << >>

requestIdFor(h, t, r) == IF Truthy(h) THEN h.value ELSE generateRequestId(t, r)

\* ------------------------------------------------------------ Map, object
Keys == {"k1", "k2"}

\* the JavaScript value undefined
Undefined == "undefined"

Values == {"v1", Undefined}

\* history only: the key holds no entry
Absent == "absent"

\* A Map is the sequence of its entries <<key, value>> in insertion order.
MapHas(m, k) == \E i \in 1..Len(m) : m[i][1] = k

MapGet(m, k) ==
    IF MapHas(m, k) THEN m[CHOOSE i \in 1..Len(m) : m[i][1] = k][2] ELSE Undefined

MapSet_InsertOnly(m, k, v) == IF MapHas(m, k) THEN m ELSE Append(m, <<k, v>>)

MapSet(m, k, v) ==
    IF MapHas(m, k)
    THEN [i \in 1..Len(m) |-> IF m[i][1] = k THEN <<k, v>> ELSE m[i]]
    ELSE Append(m, <<k, v>>)

MapDelete_All(m, k) == [map |-> << >>, removed |-> MapHas(m, k)]

\* Map.prototype.delete: the map without the entry, and whether there was one
MapDelete(m, k) ==
    [map |-> SelectSeq(m, LAMBDA e : e[1] # k), removed |-> MapHas(m, k)]

\* A plain object is a function from its own property names to their values.
EmptyObject == [k \in {} |-> Undefined]

DefineProperty(o, k, v) == [x \in DOMAIN o \cup {k} |-> IF x = k THEN v ELSE o[x]]

DeleteProperty(o, k) == [x \in DOMAIN o \ {k} |-> o[x]]

RECURSIVE FromEntries(_, _)
FromEntries(entries, o) ==
    IF entries = << >> THEN o
    ELSE FromEntries(Tail(entries), DefineProperty(o, Head(entries)[1], Head(entries)[2]))

\* Object.fromEntries(map): one own property per entry, in iteration order
ObjectFromEntries(m) == FromEntries(m, EmptyObject)

\* ----------------------------------------------------------------- request
Methods == << "GET", "POST", "PUT" >>

Urls == << "/a", "/b", "/c" >>

RemoteAddresses == << "10.0.0.1", "10.0.0.2", "10.0.0.3" >>

\* req.ip as the framework derives it: the peer address, except for the
\* second peer, for which it derives none
Ip(i) == IF i = 2 THEN Undefined ELSE RemoteAddresses[i]

\* The i-th request object the framework hands to the handler.  next is
\* history: the current context at each call the handler made of next().
IncomingMessage(i, app, header, bound) ==
    [ app           |-> app,
      header        |-> header,
      method        |-> Methods[((i - 1) % Len(Methods)) + 1],
      url           |-> Urls[((i - 1) % Len(Urls)) + 1],
      ip            |-> Ip(((i - 1) % Len(RemoteAddresses)) + 1),
      remoteAddress |-> RemoteAddresses[((i - 1) % Len(RemoteAddresses)) + 1],
      next          |-> << bound >> ]

\* --------------------------------------------------------- RequestContext
\* createLogger(requestId, req): the closure captures both
createLogger(requestId, req) == [requestId |-> requestId, req |-> req]

\* ----------------------------------------------------------------- logger
\* values as JSON.stringify tells them apart
String(s) == << "string", s >>

UndefinedValue == << "undefined" >>

\* an object that refers to itself
Circular == << "object", "circular" >>

\* a property read that gives a string or undefined
Property(v) == IF v = Undefined THEN UndefinedValue ELSE String(v)

\* a || b on strings: undefined and "" are falsy
OrElse(a, b) == IF a \in {Undefined, ""} THEN b ELSE a

Spread_FirstWins(o, meta) ==
    [k \in DOMAIN o \cup DOMAIN meta |-> IF k \in DOMAIN o THEN o[k] ELSE meta[k]]

\* { ...o, ...meta }: the later spread wins; spreading undefined adds nothing
Spread(o, meta) ==
    [k \in DOMAIN o \cup DOMAIN meta |-> IF k \in DOMAIN meta THEN meta[k] ELSE o[k]]

\* JSON.stringify(o, null, 2): throws on a circular structure and leaves out
\* the properties whose value is undefined; text is the properties written
JSONstringify(o) ==
    IF \E k \in DOMAIN o : o[k] = Circular
    THEN [threw |-> TRUE, text |-> EmptyObject]
    ELSE [threw |-> FALSE,
          text  |-> [k \in {x \in DOMAIN o : o[x] # UndefinedValue} |-> o[k]]]

TypeError == "TypeError: Converting circular structure to JSON"

\* new Date().toISOString() at clock reading t
toISOString(t) == "1970-01-01T00:00:00.00" \o ToString(t) \o "Z"

toUpperCase(level) ==
    CASE level = "debug" -> "DEBUG"
      [] level = "info"  -> "INFO"
      [] level = "warn"  -> "WARN"
      [] level = "error" -> "ERROR"

\* the switch on level: the console method that is called
ConsoleMethod(level) ==
    CASE level = "debug" -> "console.debug"
      [] level = "info"  -> "console.info"
      [] level = "warn"  -> "console.warn"
      [] level = "error" -> "console.error"
      [] OTHER           -> "console.log"

\* the four operations of the Logger interface
Levels == {"debug", "info", "warn", "error"}

Messages == {"m"}

\* the meta argument: left out, or an object of the caller's
NoMeta == [given |-> FALSE, props |-> EmptyObject]

MetaUser == [given |-> TRUE, props |-> [userId |-> String("u1")]]

MetaOverride == [given |-> TRUE, props |-> [requestId |-> String(<< "x" >>)]]

MetaUndefined == [given |-> TRUE, props |-> [userId |-> UndefinedValue]]

MetaCircular == [given |-> TRUE, props |-> [self |-> Circular]]

Metas == {NoMeta, MetaUser, MetaOverride, MetaUndefined, MetaCircular}

\* the context object logWithContext builds from the closure's requestId and
\* req (read when the call is made) and the caller's meta
LogContext(requestId, req, t, meta) ==
    Spread([ timestamp |-> String(toISOString(t)),
             requestId |-> String(requestId),
             method    |-> Property(req.method),
             url       |-> Property(req.url),
             ip        |-> Property(OrElse(req.ip, req.remoteAddress)) ],
           meta.props)

\* logWithContext(level, message, meta) at clock reading t: the console call
\* it makes, unless JSON.stringify threw before it
logWithContext(requestId, req, t, level, message, meta) ==
    LET logMessage == << toISOString(t), toUpperCase(level), requestId, message >>
        logData    == JSONstringify(LogContext(requestId, req, t, meta))
    IN  [ threw    |-> logData.threw,
          emission |-> [ method |-> ConsoleMethod(level),
                         args   |-> << logMessage, "\n", logData.text >> ] ]

NewMap_Shared(heap) == 1

\* new Map<string, unknown>(): the reference of the Map the constructor makes
NewMap(heap) == Len(heap) + 1

RequestContext_DefaultConfig(app, req, res, cfg, requestId, t, m) ==
    [ app       |-> app,
      req       |-> req,
      res       |-> res,
      config    |-> "{}",
      logger    |-> createLogger(requestId, req),
      requestId |-> requestId,
      startTime |-> t,
      metadata  |-> m ]

\* the constructor's this.data
RequestContext(app, req, res, cfg, requestId, t, m) ==
    [ app       |-> app,
      req       |-> req,
      res       |-> res,
      config    |-> cfg,
      logger    |-> createLogger(requestId, req),
      requestId |-> requestId,
      startTime |-> t,
      metadata  |-> m ]

\* the getters of RequestContext that return a field of this.data
Getters == {"app", "req", "res", "config", "logger", "requestId", "startTime"}

\* history only: elapsedTime has not been read
NoRead == -1

elapsedTime_Cached(c) ==
    IF elapsed[c] # NoRead THEN elapsed[c] ELSE now - contexts[c].startTime

\* get elapsedTime(): Date.now() - this.data.startTime
elapsedTime(c) == now - contexts[c].startTime

\* this.data.metadata of context c
Metadata(c) == maps[contexts[c].metadata]

getMetadata(c, k) == MapGet(Metadata(c), k)

hasMetadata(c, k) == MapHas(Metadata(c), k)

getAllMetadata(c) == ObjectFromEntries(Metadata(c))

\* ---------------------------------------------------------- scoped storage
\* asyncLocalStorage.getStore(): the store of the executing resource
getStore_Global == Len(contexts)

getStore == store

getContext_Default ==
    IF getStore = NoContext /\ contexts # << >> THEN 1 ELSE getStore

getContext == getStore

handlerThrows_Caught(e) == NoError

\* what the handler throws when next() threw e: it has no try/catch
handlerThrows(e) == e

\* the exceptions the downstream code throws
Errors == {"E1", "E2"}

\* asyncLocalStorage.run(context, fn) on entry: the store fn runs with
runStore(c) == c

\* asyncLocalStorage.run on exit (finally): the store put back
restoredStore_Cleared(stack) == NoContext

restoredStore(stack) == Last(stack)

\* the store a newly created async resource takes from the executing one
propagate_Enclosing(s) ==
    IF saved # << >> /\ Last(saved) # NoContext THEN Last(saved) ELSE s

propagate_Dropped(s) == NoContext

propagate(s) == s

\* ---------------------------------------------------------- observations
\* op: the function called; ok: it returned (FALSE: it threw); val: the value
\* returned or the Error's message; on: the receiver and arguments; before:
\* history, what the key held before a metadata call
Call(op, ok, val, on, before) ==
    [op |-> op, ok |-> ok, val |-> val, on |-> on, before |-> before]

NoCall == Call("none", TRUE, "none", << >>, "none")

Accessors == {"$app", "$req", "$res", "$config", "$logger"}

ErrorMessage_CopyPaste(name) ==
    <<"$app", "() can only be called within a request context">>

\* the message of the Error each accessor throws
ErrorMessage(name) == <<name, "() can only be called within a request context">>

\* the field each accessor projects out of the context
Field(ctx, name) ==
    CASE name = "$app"    -> ctx.app
      [] name = "$req"    -> ctx.req
      [] name = "$res"    -> ctx.res
      [] name = "$config" -> ctx.config
      [] name = "$logger" -> ctx.logger

\* $app(), $req(), $res(), $config(), $logger(): the thrown Error or the field
Accessor(name) ==
    IF getContext = NoContext
    THEN Call(name, FALSE, ErrorMessage(name), << >>, "none")
    ELSE Call(name, TRUE, Field(contexts[getContext], name), << >>, "none")

\* ------------------------------------------------------------------- ghost
\* how the running task began: kind; origin, the context current where a
\* continuation was scheduled; left, the context of the runInContext that
\* returned last in this task
NewTask(kind, origin) == [kind |-> kind, origin |-> origin, left |-> NoContext]

Idle == NewTask("idle", NoContext)

Owner(ch) == IF ch = << >> THEN NoContext ELSE Last(ch)

\* the enclosing runs a continuation inherits: the one current where it was scheduled
Inherited(c) == IF c = NoContext THEN << >> ELSE << c >>

\* -------------------------------------------------------------------- Init
Init ==
    /\ now = 0
    /\ config = AppConfig
    /\ requests = << >>
    /\ contexts = << >>
    /\ maps = << >>
    /\ objects = << >>
    /\ running = FALSE
    /\ store = NoContext
    /\ saved = << >>
    /\ pending = EmptyBag
    /\ last = NoCall
    /\ chain = << >>
    /\ task = Idle
    /\ idgen = << >>
    /\ wrote = << >>
    /\ error = NoError
    /\ sink = << >>
    /\ elapsed = << >>

\* ----------------------------------------------------------------- actions
\* The clock advances between tasks.
Tick ==
    /\ ~running
    /\ now < MaxTime
    /\ now' = now + 1
    /\ last' = NoCall
    /\ UNCHANGED << config, requests, contexts, maps, objects, running, store,
                    saved, pending, chain, task, idgen, wrote, error, sink, elapsed >>

\* The handler asyncContext(config) returns, called by the framework for an
\* inbound request: it derives the id, constructs the context and enters
\* runInContext(context, () => next()).  dt is the time that passes between
\* the two Date.now() reads (generateRequestId, then the constructor).
asyncContext(app, header, rnd, dt) ==
    /\ ~running
    /\ Len(contexts) < MaxContexts
    /\ now + dt <= MaxTime
    /\ LET req       == Len(requests) + 1
           requestId == requestIdFor(header, now, rnd)
           m         == NewMap(maps)
           context   == RequestContext(app, req, req, config, requestId, now + dt, m)
           c         == Len(contexts) + 1
       IN  /\ requests' = Append(requests,
                                 IncomingMessage(req, app, header, runStore(c)))
           /\ contexts' = Append(contexts, context)
           /\ maps' = Append(maps, << >>)
           /\ idgen' = Append(idgen, [generated |-> ~Truthy(header),
                                      time |-> now, random |-> rnd])
           /\ wrote' = Append(wrote, [k \in Keys |-> Absent])
           /\ elapsed' = Append(elapsed, NoRead)
           /\ running' = TRUE
           /\ saved' = << NoContext >>
           /\ store' = runStore(c)
           /\ chain' = << c >>
    /\ now' = now + dt
    /\ task' = NewTask("request", NoContext)
    /\ last' = NoCall
    /\ UNCHANGED << config, objects, pending, error, sink >>

\* new RequestContext(app, req, res, config, requestId) by the running code,
\* with the handles of the current context and an id of its own; it binds
\* nothing.
Construct(requestId) ==
    /\ running
    /\ getContext # NoContext
    /\ Len(contexts) < MaxContexts
    /\ LET cur == contexts[getContext]
       IN  contexts' = Append(contexts,
                              RequestContext(cur.app, cur.req, cur.res, cur.config,
                                             requestId, now, NewMap(maps)))
    /\ maps' = Append(maps, << >>)
    /\ idgen' = Append(idgen, [generated |-> FALSE, time |-> now, random |-> << >>])
    /\ wrote' = Append(wrote, [k \in Keys |-> Absent])
    /\ elapsed' = Append(elapsed, NoRead)
    /\ last' = NoCall
    /\ UNCHANGED << now, config, requests, objects, running, store, saved,
                    pending, chain, task, error, sink >>

\* The event loop starts a task that no runInContext caused (start-up code,
\* a timer set outside every request).
StartTask ==
    /\ ~running
    /\ running' = TRUE
    /\ store' = NoContext
    /\ saved' = << >>
    /\ chain' = << >>
    /\ task' = NewTask("plain", NoContext)
    /\ last' = NoCall
    /\ UNCHANGED << now, config, requests, contexts, maps, objects, pending, idgen, wrote, error, sink, elapsed >>

\* runInContext(context, fn) entered by the running code, with a context it holds
runInContext(c) ==
    /\ running
    /\ c \in 1..Len(contexts)
    /\ Len(saved) < MaxDepth
    /\ saved' = Append(saved, store)
    /\ store' = runStore(c)
    /\ chain' = Append(chain, c)
    /\ last' = NoCall
    /\ UNCHANGED << now, config, requests, contexts, maps, objects, running,
                    pending, task, idgen, wrote, error, sink, elapsed >>

\* fn returns or throws: asyncLocalStorage.run puts the old store back and
\* lets an exception through; the outermost run of a request task is the
\* handler's own, and what leaves it leaves the handler.
runReturn ==
    /\ running
    /\ saved # << >>
    /\ store' = restoredStore(saved)
    /\ saved' = Front(saved)
    /\ chain' = Front(chain)
    /\ task' = [task EXCEPT !.left = Last(chain)]
    /\ error' = IF task.kind = "request" /\ Len(saved) = 1
                THEN handlerThrows(error)
                ELSE error
    /\ last' = NoCall
    /\ UNCHANGED << now, config, requests, contexts, maps, objects, running,
                    pending, idgen, wrote, sink, elapsed >>

\* The running code throws.
Throw(e) ==
    /\ running
    /\ error = NoError
    /\ error' = e
    /\ last' = NoCall
    /\ UNCHANGED << now, config, requests, contexts, maps, objects, running,
                    store, saved, pending, chain, task, idgen, wrote, sink, elapsed >>

\* A try/catch of the code downstream of the handler takes the exception:
\* in a request task that code runs inside the handler's run.
Catch ==
    /\ running
    /\ error # NoError
    /\ task.kind = "request" => saved # << >>
    /\ error' = NoError
    /\ last' = NoCall
    /\ UNCHANGED << now, config, requests, contexts, maps, objects, running,
                    store, saved, pending, chain, task, idgen, wrote, sink, elapsed >>

\* The running code schedules a continuation (timer, I/O callback, promise
\* reaction): the new async resource takes the executing resource's store.
Schedule ==
    /\ running
    /\ BagCardinality(pending) < MaxPending
    /\ pending' = pending (+) SetToBag({[store |-> propagate(store),
                                         origin |-> Owner(chain)]})
    /\ last' = NoCall
    /\ UNCHANGED << now, config, requests, contexts, maps, objects, running,
                    store, saved, chain, task, idgen, wrote, error, sink, elapsed >>

\* The event loop runs a pending continuation.
RunTask(r) ==
    /\ ~running
    /\ BagIn(r, pending)
    /\ running' = TRUE
    /\ store' = r.store
    /\ saved' = << >>
    /\ chain' = Inherited(r.origin)
    /\ task' = NewTask("continuation", r.origin)
    /\ pending' = pending (-) SetToBag({r})
    /\ last' = NoCall
    /\ UNCHANGED << now, config, requests, contexts, maps, objects, idgen, wrote, error, sink, elapsed >>

\* The running task returns to the event loop, or its exception reaches the
\* host's error path.
TaskEnd ==
    /\ running
    /\ saved = << >>
    /\ running' = FALSE
    /\ store' = NoContext
    /\ chain' = << >>
    /\ task' = Idle
    /\ error' = NoError
    /\ last' = NoCall
    /\ UNCHANGED << now, config, requests, contexts, maps, objects, saved,
                    pending, idgen, wrote, sink, elapsed >>

\* The running code calls getContext().
CallGetContext ==
    /\ running
    /\ last' = Call("getContext", TRUE, getContext, << >>, "none")
    /\ UNCHANGED << now, config, requests, contexts, maps, objects, running,
                    store, saved, pending, chain, task, idgen, wrote, error, sink, elapsed >>

\* The running code calls one of $app(), $req(), $res(), $config(), $logger().
CallAccessor(name) ==
    /\ running
    /\ last' = Accessor(name)
    /\ UNCHANGED << now, config, requests, contexts, maps, objects, running,
                    store, saved, pending, chain, task, idgen, wrote, error, sink, elapsed >>

\* context.app, .req, .res, .config, .logger, .requestId, .startTime
CallGetter(c, name) ==
    /\ running
    /\ c \in 1..Len(contexts)
    /\ last' = Call(name, TRUE, contexts[c][name], << c >>, "none")
    /\ UNCHANGED << now, config, requests, contexts, maps, objects, running,
                    store, saved, pending, chain, task, idgen, wrote, error, sink,
                    elapsed >>

CallSetMetadata_OnData(c, k, v) ==
    /\ running
    /\ c \in 1..Len(contexts)
    /\ contexts' = [contexts EXCEPT ![c] = DefineProperty(@, k, v)]
    /\ wrote' = [wrote EXCEPT ![c][k] = v]
    /\ last' = Call("setMetadata", TRUE, Undefined, <<c, k, v>>, wrote[c][k])
    /\ UNCHANGED << now, config, requests, maps, objects, running, store,
                    saved, pending, chain, task, idgen, error, sink, elapsed >>

CallSetMetadata_Current(c, k, v) ==
    /\ running
    /\ c \in 1..Len(contexts)
    /\ LET this == IF getContext = NoContext THEN c ELSE getContext
       IN  maps' = [maps EXCEPT ![contexts[this].metadata] = MapSet(@, k, v)]
    /\ wrote' = [wrote EXCEPT ![c][k] = v]
    /\ last' = Call("setMetadata", TRUE, Undefined, <<c, k, v>>, wrote[c][k])
    /\ UNCHANGED << now, config, requests, contexts, objects, running, store,
                    saved, pending, chain, task, idgen, error, sink, elapsed >>

\* context.setMetadata(key, value)
CallSetMetadata(c, k, v) ==
    /\ running
    /\ c \in 1..Len(contexts)
    /\ maps' = [maps EXCEPT ![contexts[c].metadata] = MapSet(@, k, v)]
    /\ wrote' = [wrote EXCEPT ![c][k] = v]
    /\ last' = Call("setMetadata", TRUE, Undefined, <<c, k, v>>, wrote[c][k])
    /\ UNCHANGED << now, config, requests, contexts, objects, running, store,
                    saved, pending, chain, task, idgen, error, sink, elapsed >>

CallLogger_Current(c, level, message, meta) ==
    /\ running
    /\ c \in 1..Len(contexts)
    /\ Len(sink) < MaxSink
    /\ LET logger == contexts[IF getContext = NoContext THEN c ELSE getContext].logger
           out    == logWithContext(logger.requestId, requests[logger.req], now,
                                    level, message, meta)
       IN  /\ sink' = IF out.threw THEN sink ELSE Append(sink, out.emission)
           /\ error' = IF out.threw THEN TypeError ELSE error
           /\ last' = Call("logger", ~out.threw, Undefined,
                           << c, level, message, meta >>, getContext)
    /\ UNCHANGED << now, config, requests, contexts, maps, objects, running,
                    store, saved, pending, chain, task, idgen, wrote, elapsed >>

\* context.logger.<level>(message, meta) on the logger of context c, which the
\* code holds; the console call is part of the step.
CallLogger(c, level, message, meta) ==
    /\ running
    /\ c \in 1..Len(contexts)
    /\ Len(sink) < MaxSink
    /\ LET logger == contexts[c].logger
           out    == logWithContext(logger.requestId, requests[logger.req], now,
                                    level, message, meta)
       IN  /\ sink' = IF out.threw THEN sink ELSE Append(sink, out.emission)
           /\ error' = IF out.threw THEN TypeError ELSE error
           /\ last' = Call("logger", ~out.threw, Undefined,
                           << c, level, message, meta >>, getContext)
    /\ UNCHANGED << now, config, requests, contexts, maps, objects, running,
                    store, saved, pending, chain, task, idgen, wrote, elapsed >>

\* The peer of request i goes away: its socket is destroyed and has no
\* remoteAddress any more, and the framework derives no ip.
Disconnect(i) ==
    /\ i \in 1..Len(requests)
    /\ requests[i].remoteAddress # Undefined
    /\ requests' = [requests EXCEPT ![i].remoteAddress = Undefined,
                                    ![i].ip = Undefined]
    /\ last' = NoCall
    /\ UNCHANGED << now, config, contexts, maps, objects, running, store, saved,
                    pending, chain, task, idgen, wrote, error, sink, elapsed >>

\* context.elapsedTime read by code that holds context c
CallElapsedTime(c) ==
    /\ running
    /\ c \in 1..Len(contexts)
    /\ elapsed' = [elapsed EXCEPT ![c] = elapsedTime(c)]
    /\ last' = Call("elapsedTime", TRUE, elapsedTime(c), << c >>, elapsed[c])
    /\ UNCHANGED << now, config, requests, contexts, maps, objects, running,
                    store, saved, pending, chain, task, idgen, wrote, error, sink >>

\* context.getMetadata(key)
CallGetMetadata(c, k) ==
    /\ running
    /\ c \in 1..Len(contexts)
    /\ last' = Call("getMetadata", TRUE, getMetadata(c, k), <<c, k>>, wrote[c][k])
    /\ UNCHANGED << now, config, requests, contexts, maps, objects, running,
                    store, saved, pending, chain, task, idgen, wrote, error, sink, elapsed >>

\* context.hasMetadata(key)
CallHasMetadata(c, k) ==
    /\ running
    /\ c \in 1..Len(contexts)
    /\ last' = Call("hasMetadata", TRUE, hasMetadata(c, k), <<c, k>>, wrote[c][k])
    /\ UNCHANGED << now, config, requests, contexts, maps, objects, running,
                    store, saved, pending, chain, task, idgen, wrote, error, sink, elapsed >>

\* context.deleteMetadata(key): Map.prototype.delete returns whether it removed
CallDeleteMetadata(c, k) ==
    /\ running
    /\ c \in 1..Len(contexts)
    /\ maps' = [maps EXCEPT ![contexts[c].metadata] = MapDelete(@, k).map]
    /\ wrote' = [wrote EXCEPT ![c][k] = Absent]
    /\ last' = Call("deleteMetadata", TRUE, MapDelete(Metadata(c), k).removed,
                    <<c, k>>, wrote[c][k])
    /\ UNCHANGED << now, config, requests, contexts, objects, running, store,
                    saved, pending, chain, task, idgen, error, sink, elapsed >>

\* context.clearMetadata()
CallClearMetadata(c) ==
    /\ running
    /\ c \in 1..Len(contexts)
    /\ maps' = [maps EXCEPT ![contexts[c].metadata] = << >>]
    /\ wrote' = [wrote EXCEPT ![c] = [k \in Keys |-> Absent]]
    /\ last' = Call("clearMetadata", TRUE, Undefined, <<c>>, "none")
    /\ UNCHANGED << now, config, requests, contexts, objects, running, store,
                    saved, pending, chain, task, idgen, error, sink, elapsed >>

CallGetAllMetadata_Reused(c) ==
    /\ running
    /\ c \in 1..Len(contexts)
    /\ objects' = IF objects = << >> THEN << getAllMetadata(c) >>
                  ELSE [objects EXCEPT ![1] = getAllMetadata(c)]
    /\ last' = Call("getAllMetadata", TRUE, 1, <<c>>, "none")
    /\ UNCHANGED << now, config, requests, contexts, maps, running, store,
                    saved, pending, chain, task, idgen, wrote, error, sink, elapsed >>

\* context.getAllMetadata(): a new plain object
CallGetAllMetadata(c) ==
    /\ running
    /\ c \in 1..Len(contexts)
    /\ Len(objects) < MaxObjects
    /\ objects' = Append(objects, getAllMetadata(c))
    /\ last' = Call("getAllMetadata", TRUE, Len(objects) + 1, <<c>>, "none")
    /\ UNCHANGED << now, config, requests, contexts, maps, running, store,
                    saved, pending, chain, task, idgen, wrote, error, sink, elapsed >>

\* The running code assigns a property of an object getAllMetadata returned.
WriteSnapshot(o, k, v) ==
    /\ running
    /\ o \in 1..Len(objects)
    /\ objects' = [objects EXCEPT ![o] = DefineProperty(@, k, v)]
    /\ last' = Call("writeSnapshot", TRUE, Undefined, <<o, k, v>>, "none")
    /\ UNCHANGED << now, config, requests, contexts, maps, running, store,
                    saved, pending, chain, task, idgen, wrote, error, sink, elapsed >>

\* The running code deletes a property of an object getAllMetadata returned.
DeleteSnapshot(o, k) ==
    /\ running
    /\ o \in 1..Len(objects)
    /\ objects' = [objects EXCEPT ![o] = DeleteProperty(@, k)]
    /\ last' = Call("deleteSnapshot", TRUE, Undefined, <<o, k>>, "none")
    /\ UNCHANGED << now, config, requests, contexts, maps, running, store,
                    saved, pending, chain, task, idgen, wrote, error, sink, elapsed >>

\* ---------------------------------------------------------- specifications
\* Scoping: requests, nested runs, continuations, accessors.
Next ==
    \/ \E app \in Apps : asyncContext(app, HeaderAbc123, RandomHalf, 0)
    \/ StartTask
    \/ \E c \in 1..MaxContexts : runInContext(c)
    \/ runReturn
    \/ Schedule
    \/ \E r \in BagToSet(pending) : RunTask(r)
    \/ TaskEnd
    \/ CallGetContext
    \/ \E name \in Accessors : CallAccessor(name)

Spec == Init /\ [][Next]_vars

\* Request identity: requests with every header and random draw, as the clock runs.
NextId ==
    \/ Tick
    \/ \E app \in Apps, header \in Headers, rnd \in Randoms, dt \in {0, 1} :
           asyncContext(app, header, rnd, dt)
    \/ runReturn
    \/ TaskEnd

SpecId == Init /\ [][NextId]_vars

\* Metadata: two chains interleave and each works on its current context.
NextMeta ==
    \/ asyncContext("app1", HeaderAbc123, RandomHalf, 0)
    \/ runReturn
    \/ (BagCardinality(pending) < MaxMetaPending /\ Schedule)
    \/ \E r \in BagToSet(pending) : RunTask(r)
    \/ TaskEnd
    \/ \E k \in Keys, v \in Values : CallSetMetadata(getContext, k, v)
    \/ \E k \in Keys : CallDeleteMetadata(getContext, k)
    \/ CallClearMetadata(getContext)

SpecMeta == Init /\ [][NextMeta]_vars

\* Snapshots: the code keeps the objects getAllMetadata returned and changes
\* them, and changes the store, in any order.
NextSnap ==
    \/ (Len(contexts) < MaxSnapContexts
           /\ asyncContext("app1", HeaderAbc123, RandomHalf, 0))
    \/ runReturn
    \/ TaskEnd
    \/ \E k \in Keys, v \in Values : CallSetMetadata(getContext, k, v)
    \/ \E k \in Keys : CallDeleteMetadata(getContext, k)
    \/ CallClearMetadata(getContext)
    \/ \E k \in Keys : CallGetMetadata(getContext, k)
    \/ \E k \in Keys : CallHasMetadata(getContext, k)
    \/ CallGetAllMetadata(getContext)
    \/ \E o \in 1..MaxObjects, k \in Keys, v \in Values : WriteSnapshot(o, k, v)
    \/ \E o \in 1..MaxObjects, k \in Keys : DeleteSnapshot(o, k)

SpecSnap == Init /\ [][NextSnap]_vars

\* Errors: the downstream code throws at any depth and catches or not.
NextErr ==
    \/ asyncContext("app1", HeaderAbc123, RandomHalf, 0)
    \/ (error = NoError /\ \E c \in 1..MaxContexts : runInContext(c))
    \/ runReturn
    \/ \E e \in Errors : Throw(e)
    \/ Catch
    \/ (error = NoError /\ Schedule)
    \/ \E r \in BagToSet(pending) : RunTask(r)
    \/ TaskEnd
    \/ (error = NoError /\ CallGetContext)

SpecErr == Init /\ [][NextErr]_vars

\* Every operation of a context: getters, elapsedTime, metadata operations and
\* logger calls, on the current context.
NextFrame ==
    \/ (Len(contexts) < MaxFrameContexts
           /\ asyncContext("app1", HeaderAbc123, RandomHalf, 0))
    \/ runReturn
    \/ TaskEnd
    \/ \E name \in Accessors : CallAccessor(name)
    \/ \E name \in Getters : CallGetter(getContext, name)
    \/ CallElapsedTime(getContext)
    \/ \E v \in Values : CallSetMetadata(getContext, "k1", v)
    \/ CallGetMetadata(getContext, "k1")
    \/ CallHasMetadata(getContext, "k1")
    \/ CallDeleteMetadata(getContext, "k1")
    \/ CallClearMetadata(getContext)
    \/ CallGetAllMetadata(getContext)
    \/ (Len(sink) < MaxLogged
           /\ \E meta \in {NoMeta, MetaOverride} :
                  CallLogger(getContext, "warn", "m", meta))

SpecFrame == Init /\ [][NextFrame]_vars

\* Nesting: one request, whose code constructs further contexts, binds them in
\* runs nested within the request's chain and schedules continuations at
\* every depth; every run and every continuation starts inside a binding.
NextNest ==
    \/ (Len(requests) < MaxNestRequests
           /\ asyncContext("app1", HeaderAbc123, RandomHalf, 0))
    \/ Construct(<< "b" >>)
    \/ (chain # << >> /\ \E c \in 1..MaxContexts : runInContext(c))
    \/ runReturn
    \/ (chain # << >> /\ Schedule)
    \/ \E r \in BagToSet(pending) : RunTask(r)
    \/ TaskEnd
    \/ CallGetContext

SpecNest == Init /\ [][NextNest]_vars

\* Ownership: the code keeps every context it has seen, binds it again in runs
\* of its own, and works on its metadata from any chain.
NextOwn ==
    \/ asyncContext("app1", HeaderAbc123, RandomHalf, 0)
    \/ \E c \in 1..MaxContexts : runInContext(c)
    \/ runReturn
    \/ (BagCardinality(pending) < MaxMetaPending /\ Schedule)
    \/ \E r \in BagToSet(pending) : RunTask(r)
    \/ TaskEnd
    \/ \E c \in 1..MaxContexts : CallSetMetadata(c, "k1", "v1")
    \/ \E c \in 1..MaxContexts : CallGetMetadata(c, "k1")

SpecOwn == Init /\ [][NextOwn]_vars

\* Time: contexts made as the clock runs, read in their own task and in later ones.
NextTime ==
    \/ Tick
    \/ \E dt \in {0, 1} : asyncContext("app1", HeaderAbc123, RandomHalf, dt)
    \/ runReturn
    \/ Schedule
    \/ \E r \in BagToSet(pending) : RunTask(r)
    \/ TaskEnd
    \/ \E c \in 1..MaxContexts : CallElapsedTime(c)

SpecTime == Init /\ [][NextTime]_vars

\* Log records: requests with an id of their own or a generated one; loggers
\* of every context, called with every kind of meta from
\* a request's chain, from another request's chain and from no chain, while
\* peers disconnect.
NextLog ==
    \/ \E header \in {HeaderAbc123, HeaderAbsent} :
           asyncContext("app1", header, RandomHalf, 0)
    \/ (error = NoError /\ StartTask)
    \/ runReturn
    \/ TaskEnd
    \/ \E i \in 1..MaxContexts : Disconnect(i)
    \/ (error = NoError /\ Len(sink) < MaxLogged
           /\ \E c \in 1..MaxContexts, meta \in Metas :
                  CallLogger(c, "info", "m", meta))

SpecLog == Init /\ [][NextLog]_vars

\* The sink: one request's logger called at every level.
NextSink ==
    \/ (Len(contexts) < MaxSinkContexts
           /\ asyncContext("app1", HeaderAbc123, RandomHalf, 0))
    \/ Tick
    \/ runReturn
    \/ Catch
    \/ TaskEnd
    \/ (error = NoError /\ \E level \in Levels, message \in Messages,
                              meta \in {NoMeta, MetaCircular} :
           CallLogger(getContext, level, message, meta))

SpecSink == Init /\ [][NextSink]_vars

\* ------------------------------------------------------------------ claims
\* C1 (isolation under interleaving): whatever other contexts exist and however
\* the steps of their chains interleave, a call of getContext or of $app, $req,
\* $res, $config, $logger made in a step whose enclosing run bound context a
\* returns a, respectively a's field, and never the request, response or logger
\* of another context.
Isolation ==
    \A a \in 1..Len(contexts) :
        (running /\ Owner(chain) = a) =>
            /\ (last.op = "getContext") => (last.val = a)
            /\ (last.op \in Accessors) =>
                   /\ last.ok
                   /\ last.val = Field(contexts[a], last.op)
                   /\ \A b \in (1..Len(contexts)) \ {a} :
                          (last.op \in {"$req", "$res", "$logger"}) =>
                              (last.val # Field(contexts[b], last.op))

\* C1 witness: a continuation of context 1 runs after context 2 was bound and
\* while a continuation of context 2 is still pending, and $req() in it
\* returned the request of context 1.
IsolationWitness ==
    /\ Len(contexts) = 2
    /\ task.kind = "continuation" /\ task.origin = 1
    /\ \E r \in BagToSet(pending) : r.origin = 2
    /\ last.op = "$req" /\ last.ok /\ last.val = contexts[1].req

\* C2 (absence): an accessor called where no runInContext encloses the step
\* throws an Error whose message starts with that accessor's own name; called
\* inside a runInContext it returns; this also holds after the run has returned.
Absence ==
    \A name \in Accessors :
        (last.op = name) =>
            /\ (chain = << >>) =>
                   /\ ~last.ok
                   /\ last.val = <<name, "() can only be called within a request context">>
            /\ (chain # << >>) => last.ok

\* C2 witness: in a request task whose runInContext has returned, with no
\* outer run, $logger() failed.
AbsenceWitness ==
    /\ task.kind = "request" /\ task.left # NoContext /\ chain = << >>
    /\ last.op = "$logger" /\ ~last.ok

\* C3 (nesting restores the outer context): a step that enters runInContext(c)
\* makes getContext() return c, and the step that returns from it makes
\* getContext() return what the enclosing run bound (undefined when there is
\* no enclosing run), at every depth.
NestingRestores ==
    [][ /\ (running' /\ Len(chain') = Len(chain) + 1) =>
               (getContext' = Last(chain'))
        /\ (running /\ running' /\ Len(chain') = Len(chain) - 1) =>
               (getContext' = Owner(Front(chain))) ]_vars

\* C3 witness: two runs deep, the inner run of context 2 has returned and
\* getContext() returned the outer context 1 again.
NestingWitness ==
    /\ running /\ task.left = 2
    /\ chain = << 1 >> /\ Len(saved) = 1
    /\ last.op = "getContext" /\ last.val = 1

\* C4 (causal propagation): while a continuation runs outside any run of its
\* own, getContext() is the context that was current where it was scheduled.
CausalPropagation ==
    (running /\ task.kind = "continuation" /\ saved = << >>) =>
        /\ getContext = task.origin
        /\ (last.op = "getContext") => (last.val = task.origin)

\* C4 witness: a continuation scheduled under context 1 runs after the
\* runInContext of context 1 returned, after context 2 was bound and while
\* context 2 has a continuation and a plain task has another one pending, and
\* getContext() returned context 1.
CausalWitness ==
    /\ task.kind = "continuation" /\ task.origin = 1
    /\ Len(contexts) = 2 /\ saved = << >>
    /\ \E r \in BagToSet(pending) : r.origin = 2
    /\ \E r \in BagToSet(pending) : r.origin = NoContext
    /\ last.op = "getContext" /\ last.val = 1

\* C5 (no context without a run): getContext() in a step that no runInContext
\* encloses, directly or through the step that scheduled it, returns undefined.
NoDefaultContext ==
    (last.op = "getContext" /\ chain = << >>) => (last.val = NoContext)

\* C5 witness: a continuation scheduled outside every run calls getContext()
\* and gets undefined while two contexts exist and one has a pending continuation.
NoDefaultWitness ==
    /\ task.kind = "continuation" /\ task.origin = NoContext /\ chain = << >>
    /\ Len(contexts) = 2
    /\ \E r \in BagToSet(pending) : r.origin # NoContext
    /\ last.op = "getContext" /\ last.val = NoContext

\* the request whose handling constructed context c
RequestOf(c) == requests[contexts[c].req]

\* id is req_<the decimal digits of t>_<zero or more characters 0-9 a-z>
HasGeneratedForm(id, t) ==
    \E k \in 5..Len(id) :
        /\ SubSeq(id, 1, 4) = <<"r", "e", "q", "_">>
        /\ SubSeq(id, 5, k - 1) = NumberToString(t)
        /\ id[k] = "_"
        /\ \A j \in (k + 1)..Len(id) : id[j] \in Alphanumeric

\* C9 (identifier adoption): a context constructed for a request with a
\* non-empty x-request-id header has exactly that value as requestId; with the
\* header absent or empty the requestId is req_<clock at handling>_<suffix of
\* characters 0-9 a-z>.
IdentifierAdoption ==
    \A c \in 1..Len(contexts) :
        LET h == RequestOf(c).header
        IN  IF h.present /\ Len(h.value) > 0
            THEN contexts[c].requestId = h.value
            ELSE HasGeneratedForm(contexts[c].requestId, idgen[c].time)

\* C9 witness: one request carried x-request-id: abc123 and its context has
\* that id; another carried an empty header and its context has a generated id.
IdentifierWitness ==
    /\ Len(contexts) = 2
    /\ RequestOf(1).header = HeaderAbc123
    /\ contexts[1].requestId = <<"a", "b", "c", "1", "2", "3">>
    /\ RequestOf(2).header = HeaderEmpty
    /\ contexts[2].requestId = <<"r", "e", "q", "_", "1", "_", "i">>

\* the first nine digits of a random draw's base-36 fraction
FirstNine(r) == SubSeq(r, 1, Min(9, Len(r)))

\* two different contexts whose ids were both generated, in the same millisecond
SameMillisecond(i, j) ==
    /\ i # j
    /\ idgen[i].generated /\ idgen[j].generated
    /\ idgen[i].time = idgen[j].time

MetadataMutators == {"setMetadata", "deleteMetadata", "clearMetadata"}

\* C6 (metadata isolation across chains): the metadata of a context changes
\* only in a step of the chain that context is bound to, by one of the three
\* mutators, and after every step each context's store holds exactly the keys
\* and values last set through it and not deleted or cleared since.
MetadataIsolation ==
    [][ \A c \in 1..Len(contexts) :
           /\ (Metadata(c)' # Metadata(c)) =>
                  (Owner(chain) = c /\ last'.op \in MetadataMutators)
           /\ \A k \in Keys :
                  /\ hasMetadata(c, k)' <=> (wrote'[c][k] # Absent)
                  /\ hasMetadata(c, k)' => (getMetadata(c, k)' = wrote'[c][k]) ]_vars

\* C6 witness: a continuation of context 1 deletes k2 after the chain of
\* context 2, bound later, set k1 to undefined and k2 to v1: the store of
\* context 1 keeps its k1 and the store of context 2 both its entries.
MetadataIsolationWitness ==
    /\ Len(contexts) = 2
    /\ task.kind = "continuation" /\ task.origin = 1
    /\ Metadata(1) = << <<"k1", "v1">> >>
    /\ Metadata(2) = << <<"k1", Undefined>>, <<"k2", "v1">> >>
    /\ last.op = "deleteMetadata" /\ last.on = <<1, "k2">> /\ last.val = TRUE

\* C7 (metadata round trip): after setMetadata(k, v) getMetadata(k) is v and
\* hasMetadata(k) is true, also when k was present with another value;
\* deleteMetadata(k) returns whether k was present and leaves hasMetadata(k)
\* false; getMetadata and hasMetadata return what was last set.
MetadataRoundTrip ==
    /\ (last.op = "setMetadata") =>
           /\ getMetadata(last.on[1], last.on[2]) = last.on[3]
           /\ hasMetadata(last.on[1], last.on[2])
    /\ (last.op = "deleteMetadata") =>
           /\ last.val = (last.before # Absent)
           /\ ~hasMetadata(last.on[1], last.on[2])
    /\ (last.op = "getMetadata") =>
           (last.val = IF last.before = Absent THEN Undefined ELSE last.before)
    /\ (last.op = "hasMetadata") => (last.val = (last.before # Absent))

\* C7 witness: deleteMetadata of a key that was set, to the value undefined,
\* returned true, and the other key of the store is still there.
MetadataRoundTripWitness ==
    /\ last.op = "deleteMetadata" /\ last.before = Undefined /\ last.val = TRUE
    /\ Metadata(last.on[1]) # << >>

\* the plain object o holds exactly the entries of context c's store
SameEntries(o, c) ==
    /\ DOMAIN o = {k \in Keys : hasMetadata(c, k)}
    /\ \A k \in DOMAIN o : o[k] = getMetadata(c, k)

\* C8 (snapshot independence): getAllMetadata() returns a new object holding
\* the store's entries of that moment and changes neither the store nor an
\* object returned earlier; writing or deleting a property of a returned
\* object changes no getMetadata, hasMetadata or getAllMetadata result; a
\* mutation of the store changes no returned object.
SnapshotIndependence ==
    [][ /\ (last'.op = "getAllMetadata") =>
               /\ last'.val \notin 1..Len(objects)
               /\ SameEntries(objects'[last'.val], last'.on[1])
               /\ \A o \in 1..Len(objects) : objects'[o] = objects[o]
               /\ maps' = maps
        /\ (last'.op \in {"writeSnapshot", "deleteSnapshot"}) =>
               \A c \in 1..Len(contexts) :
                   /\ getAllMetadata(c)' = getAllMetadata(c)
                   /\ \A k \in Keys :
                          /\ getMetadata(c, k)' = getMetadata(c, k)
                          /\ hasMetadata(c, k)' = hasMetadata(c, k)
        /\ (last'.op \in MetadataMutators) => (objects' = objects) ]_vars

\* C8 witness: a snapshot taken when the store held k1 alone got a property
\* k2 written, and the store still holds k1 alone.
SnapshotWitness ==
    /\ Len(objects) = 1
    /\ last.op = "writeSnapshot" /\ last.on[1] = 1 /\ last.on[2] = "k2"
    /\ DOMAIN objects[1] = {"k1", "k2"}
    /\ Metadata(1) = << <<"k1", "v1">> >>

\* C11 (the handler is a pure scoping wrapper): the step that handles a request
\* calls next once, at once, with the context it has just constructed bound as
\* current; next is never called again for a request; and when the handler's
\* run is left, the exception in flight (or none) leaves the handler as it was
\* thrown.
HandlerIsWrapper ==
    [][ /\ (~running /\ running' /\ task'.kind = "request")
            => /\ Len(contexts') = Len(contexts) + 1
               /\ Len(requests') = Len(requests) + 1
               /\ getContext' = Len(contexts')
               /\ contexts'[getContext'].req = Len(requests')
               /\ requests'[Len(requests')].next = << Len(contexts') >>
        /\ \A i \in 1..Len(requests) : requests'[i].next = requests[i].next
        /\ (task.kind = "request" /\ Len(saved) = 1 /\ Len(saved') = 0)
            => error' = error ]_vars

HandlerWitness ==
    /\ running
    /\ task.kind = "request"
    /\ saved = << >>
    /\ task.left = Len(contexts)
    /\ error = "E1"
    /\ requests[Len(requests)].next = << Len(contexts) >>

\* the keys logWithContext writes itself
StandardKeys == {"timestamp", "requestId", "method", "url", "ip"}

\* the record (logData) of the emission the step just taken made
EmittedRecord == Last(sink).args[3]

\* the line (logMessage) of the emission the step just taken made
EmittedLine == Last(sink).args[1]

\* a logger operation has just emitted
Emitted == last.op = "logger" /\ last.ok

IpOf(c) ==
    LET req == requests[contexts[c].req]
    IN  IF req.ip # Undefined THEN req.ip ELSE req.remoteAddress

\* key k of the emitted record is the value context c's logger captured
CarriesOwn(c, k) ==
    LET req == requests[contexts[c].req]
    IN  CASE k = "requestId" ->
                 /\ k \in DOMAIN EmittedRecord
                 /\ EmittedRecord[k] = String(contexts[c].requestId)
          [] k = "method" ->
                 /\ k \in DOMAIN EmittedRecord
                 /\ EmittedRecord[k] = String(req.method)
          [] k = "url" ->
                 /\ k \in DOMAIN EmittedRecord
                 /\ EmittedRecord[k] = String(req.url)
          [] k = "ip" ->
                 IF IpOf(c) = Undefined
                 THEN k \notin DOMAIN EmittedRecord
                 ELSE /\ k \in DOMAIN EmittedRecord
                      /\ EmittedRecord[k] = String(IpOf(c))

\* C17 as stated (logger captures identity at construction): on every call,
\* whatever context is current or none, the record a logger of context A
\* emits carries A's requestId and A's request method, url and ip.
RecordCarriesOwnIdentity ==
    Emitted =>
        \A k \in {"requestId", "method", "url", "ip"} : CarriesOwn(last.on[1], k)

\* C17 amended: on every call, whatever context is current or none, the line
\* a logger of context A emits carries A's requestId, and the record carries
\* A's requestId, method, url and ip for each of these keys that the caller's
\* attachment does not name.
RecordCarriesOwnIdentityUnlessOverridden ==
    Emitted =>
        /\ EmittedLine[3] = contexts[last.on[1]].requestId
        /\ \A k \in {"requestId", "method", "url", "ip"} \ DOMAIN last.on[4].props :
               CarriesOwn(last.on[1], k)

CapturedIdentityWitness ==
    /\ Emitted
    /\ last.on[1] = 1
    /\ last.before = 2
    /\ last.on[4] = MetaUser
    /\ contexts[1].requestId # contexts[2].requestId
    /\ EmittedLine[3] = contexts[1].requestId
    /\ EmittedRecord["method"] = String(requests[1].method)
    /\ requests[1].method # requests[2].method

\* C19 (the logger is synchronous and unbuffered): each call of a logger
\* operation makes exactly one emission, on the console method of its level,
\* within the call; the emissions made before stay as they were, in the order
\* of the calls; and nothing but a logger call emits.
OneEmissionPerCall ==
    [][ IF last'.op = "logger"
        THEN /\ Len(sink') = Len(sink) + 1
             /\ SubSeq(sink', 1, Len(sink)) = sink
             /\ Last(sink').method = "console." \o last'.on[2]
             /\ Last(sink').args[1][4] = last'.on[3]
        ELSE sink' = sink ]_vars

FieldsFrozen ==
    [][ \A c \in 1..Len(contexts) :
            /\ DOMAIN contexts'[c] = DOMAIN contexts[c]
            /\ \A f \in Getters : contexts'[c][f] = contexts[c][f] ]_vars

FieldsFrozenWitness ==
    /\ contexts # << >>
    /\ last.op = "clearMetadata"
    /\ elapsed[1] # NoRead
    /\ sink # << >>
    /\ Len(objects) > 0
    /\ contexts[1].logger = createLogger(contexts[1].requestId, contexts[1].req)

\* the step just taken is setMetadata or deleteMetadata of key k, or
\* clearMetadata, on context c
Rewrites(c, k) ==
    /\ last'.op \in MetadataMutators
    /\ last'.on[1] = c
    /\ last'.op # "clearMetadata" => last'.on[2] = k

\* C15 (metadata store lifetime): a context's store is empty when the context
\* is constructed; a key that is present stays present with the same value
\* over every step that is not a setMetadata or deleteMetadata of that key or
\* a clearMetadata of that context; after clearMetadata the store holds no key
\* and getAllMetadata() is the empty object; and clearMetadata of an empty
\* store changes no store.
StoreLifetime ==
    [][ /\ \A c \in 1..Len(contexts') :
               c > Len(contexts) => (Metadata(c)' = << >>)
        /\ \A c \in 1..Len(contexts), k \in Keys :
               (hasMetadata(c, k) /\ ~Rewrites(c, k))
                   => /\ hasMetadata(c, k)'
                      /\ getMetadata(c, k)' = getMetadata(c, k)
        /\ \A c \in 1..Len(contexts) :
               (last'.op = "clearMetadata" /\ last'.on[1] = c)
                   => /\ \A k \in Keys : ~hasMetadata(c, k)'
                      /\ getAllMetadata(c)' = EmptyObject
                      /\ (Metadata(c) = << >>) => (maps' = maps) ]_vars

StoreLifetimeWitness ==
    /\ last.op = "deleteMetadata"
    /\ last.on = << 1, "k2" >>
    /\ last.val = TRUE
    /\ hasMetadata(1, "k1")
    /\ getMetadata(1, "k1") = "v1"

\* C16 (nested binding survives in its own continuations): every continuation
\* that waits carries the context that was current where it was scheduled,
\* the inner one when that was inside a nested run, and starts with it as
\* current; and once an inner run has returned, the context current in the
\* enclosing chain is the enclosing one again.
NestedBindingKept ==
    /\ \A r \in BagToSet(pending) : r.store = r.origin
    /\ (running /\ task.kind = "continuation" /\ saved = << >>)
           => store = task.origin
    /\ (running /\ task.left # NoContext /\ chain # << >>)
           => getContext = Last(chain)

NestedBindingWitness ==
    /\ running
    /\ task.kind = "continuation"
    /\ task.origin = 2
    /\ saved = << >>
    /\ last.op = "getContext"
    /\ last.val = 2
    /\ \E r \in BagToSet(pending) : r.origin = 1 /\ r.store = 1

\* C18 (one handler, many requests): every request the handler has handled has
\* a context of its own, made for it, with a metadata store of its own that
\* is empty until something is written through that context and holds only
\* what was written through it; and every context's config is the one value
\* the handler factory was given.
ContextPerRequest ==
    /\ Len(contexts) = Len(requests)
    /\ \A c \in 1..Len(contexts) :
           /\ contexts[c].req = c
           /\ contexts[c].config = config
           /\ (\A k \in Keys : wrote[c][k] = Absent) => Metadata(c) = << >>
           /\ \A k \in Keys : wrote[c][k] # Absent => getMetadata(c, k) = wrote[c][k]
    /\ \A c, d \in 1..Len(contexts) :
           /\ c # d => contexts[c].metadata # contexts[d].metadata
           /\ contexts[c].config = contexts[d].config

ContextPerRequestWitness ==
    /\ Len(contexts) = 2
    /\ running
    /\ getContext = 2
    /\ Metadata(1) = << <<"k1", "v1">>, <<"k2", "v1">> >>
    /\ Metadata(2) = << >>
    /\ contexts[2].config = contexts[1].config

\* C20 (the store belongs to the instance): whatever run binds a context and
\* whatever context is current, a metadata operation on a context acts on
\* that context's one store: every store holds what was last written through
\* its own context from any chain, a read through a context returns it, and
\* a write or delete through a context changes no other context's store.
StoreOfInstance ==
    [][ /\ \A c \in 1..Len(contexts) :
               /\ hasMetadata(c, "k1")' <=> (wrote'[c]["k1"] # Absent)
               /\ hasMetadata(c, "k1")' => (getMetadata(c, "k1")' = wrote'[c]["k1"])
               /\ (Metadata(c)' # Metadata(c))
                      => (last'.op \in MetadataMutators /\ last'.on[1] = c)
        /\ last'.op = "getMetadata"
               => last'.val = (IF last'.before = Absent THEN Undefined
                                                        ELSE last'.before) ]_vars

StoreOfInstanceWitness ==
    /\ running
    /\ task.kind = "continuation"
    /\ chain = << 2, 1 >>
    /\ getContext = 1
    /\ last.op = "getMetadata"
    /\ last.on = << 2, "k1" >>
    /\ last.val = "v1"
    /\ Metadata(1) = << >>

====
